---- MODULE Spec2Model ----
(***************************************************************************)
(* A model of the Validator class of src/src/validator.js: rule-chain      *)
(* parsing, validate / validateAll, the asynchronous reduction of test,    *)
(* message formatting with its English fallback, and the extension         *)
(* mechanism over the process-wide Rules and Messages objects.             *)
(*                                                                         *)
(* JavaScript strings that the code splits are sequences of one-character  *)
(* strings, so that String.prototype.split and indexOf are computed.       *)
(* Field names, locale codes and formatter / predicate identities are      *)
(* opaque and are TLA+ strings.                                            *)
(***************************************************************************)
EXTENDS Integers, Sequences, FiniteSets, TLC

VARIABLES
    Rules,        \* the imported Rules object: rule name -> predicate
    Messages,     \* the imported Messages object: locale -> rule name -> formatter
    locale,       \* this.locale, per Validator instance
    validations,  \* this.validations, per instance: field -> chain
    errorBag,     \* this.errorBag, per instance: field -> entries
    pending,      \* promises returned by predicates whose then-callback has not run
    last          \* the operation that produced this state, with what it returned

vars == <<Rules, Messages, locale, validations, errorBag, pending, last>>

(***************************************************************************)
(* Bounds of the model.                                                    *)
(***************************************************************************)
\* Most promises whose then-callback is outstanding at one time.
MaxPending == 2

\* The same, while the registries are being extended.
MaxPendingExt == 1

(***************************************************************************)
(* Strings and String.prototype.split.                                     *)
(***************************************************************************)
\* String.prototype.indexOf(ch), 1-based; 0 when ch does not occur (-1 in JS).
RECURSIVE IndexFrom(_, _, _)
IndexFrom(s, ch, k) ==
    IF k > Len(s) THEN 0
    ELSE IF s[k] = ch THEN k
    ELSE IndexFrom(s, ch, k + 1)

indexOf(s, ch) == IndexFrom(s, ch, 1)

\* String.prototype.split(ch): the pieces of s between the occurrences of ch.
\* A string without ch (the empty string too) splits to itself alone.
RECURSIVE split(_, _)
split(s, ch) ==
    LET k == indexOf(s, ch)
    IN  IF k = 0 THEN <<s>>
        ELSE <<SubSeq(s, 1, k - 1)>> \o split(SubSeq(s, k + 1, Len(s)), ch)

(***************************************************************************)
(* Rule chains.                                                            *)
(***************************************************************************)
\* params: null, or the list of raw tokens.
NullParams == [null |-> TRUE, items |-> <<>>]

ListParams(items) == [null |-> FALSE, items |-> items]

\* normalizeRule, had it split the segment at its first ':' only.
normalizeRuleFirstColon(rule) ==
    LET k == indexOf(rule, ":")
    IN  [name   |-> IF k = 0 THEN rule ELSE SubSeq(rule, 1, k - 1),
         params |-> IF k = 0 THEN NullParams
                    ELSE ListParams(split(SubSeq(rule, k + 1, Len(rule)), ","))]

\* normalizeRule, had it kept the text after ':' as one parameter.
normalizeRuleUnsplitParams(rule) ==
    [name   |-> split(rule, ":")[1],
     params |-> IF indexOf(rule, ":") # 0
                THEN ListParams(<<split(rule, ":")[2]>>)
                ELSE NullParams]

\* normalizeRule(rule)
normalizeRule(rule) ==
    [name   |-> split(rule, ":")[1],
     params |-> IF indexOf(rule, ":") # 0
                THEN ListParams(split(split(rule, ":")[2], ","))
                ELSE NullParams]

\* checks.split('|').forEach(rule => chain.push(this.normalizeRule(rule)))
parseChain(checks) ==
    LET segs == split(checks, "|")
    IN  [k \in 1..Len(segs) |-> normalizeRule(segs[k])]

\* normalize(validations): validations is the constructor's argument, given
\* as the sequence of its <<field, expression>> members in key order; the
\* empty sequence also stands for a missing argument.
RECURSIVE normalizeFrom(_, _, _)
normalizeFrom(args, k, normalized) ==
    IF k > Len(args) THEN normalized
    ELSE LET f     == args[k][1]
             chain == parseChain(args[k][2])
             prev  == IF f \in DOMAIN normalized THEN normalized[f] ELSE <<>>
         IN  normalizeFrom(args, k + 1,
                 [g \in DOMAIN normalized \cup {f} |->
                     IF g = f THEN prev \o chain ELSE normalized[g]])

normalize(args) == normalizeFrom(args, 1, <<>>)

(***************************************************************************)
(* The universe of the model: fields, values, instances, rule names.       *)
(***************************************************************************)
Insts == {"v1", "v2"}

Fields == {"a", "b"}

\* The values handed to validate.
Values == 0..1

Locales == {"en", "fr", "xx"}

\* Rule names, as the strings the parser yields.
R == <<"r">>

M == <<"m">>

P == <<"p">>

X == <<"x">>

\* Built-in predicates of ./rules and predicates handed to extend.  NonZero
\* and IsOne are synchronous, AtLeast is synchronous and reads its first
\* parameter, Remote returns a promise.
Predicates == {"NonZero", "AtLeast", "Remote", "IsOne"}

\* The number a one-digit parameter denotes; anything else compares false.
ToNumber(tok) ==
    CASE tok = <<"0">> -> 0
      [] tok = <<"1">> -> 1
      [] tok = <<"2">> -> 2
      [] OTHER -> -1

\* validator(value, rule.params): a boolean, or a promise.
Apply(pred, value, params) ==
    CASE pred = "NonZero" -> [kind |-> "bool", val |-> value # 0]
      [] pred = "IsOne"   -> [kind |-> "bool", val |-> value = 1]
      [] pred = "AtLeast" ->
            [kind |-> "bool",
             val  |-> /\ ~params.null
                      /\ ToNumber(params.items[1]) >= 0
                      /\ value >= ToNumber(params.items[1])]
      [] OTHER -> [kind |-> "promise", val |-> FALSE]

\* The Rules object as imported: the built-in rules.
InitRules == (R :> "NonZero") @@ (M :> "AtLeast") @@ (P :> "Remote")

\* The Messages object as imported: the built-in English formatters.
InitMessages == "en" :> ((R :> "enR") @@ (M :> "enM") @@ (P :> "enP"))

\* A map without keys.
EmptyMap == [k \in {} |-> <<>>]

\* The map m with key k set to v (m[k] = v in JavaScript).
Put(m, k, v) == [j \in DOMAIN m \cup {k} |-> IF j = k THEN v ELSE m[j]]

\* The map m without key k (delete m[k]).
Delete(m, k) == [j \in DOMAIN m \ {k} |-> m[j]]

(***************************************************************************)
(* The Error Bag (./errorBag): field -> entries in insertion order.  Each  *)
(* entry also records whether the validate pass that produced it was the   *)
(* field's most recent one when it was added (a history flag).             *)
(***************************************************************************)
NewErrorBag == [f \in Fields |-> <<>>]

\* errorBag.add(field, msg)
BagAdd(bag, field, msg, latest) ==
    [bag EXCEPT ![field] =
        Append(@, [field |-> field, msg |-> msg, latest |-> latest])]

\* errorBag.remove(field)
BagRemove(bag, field) == [bag EXCEPT ![field] = <<>>]

\* errorBag.clear()
BagClear(bag) == [f \in Fields |-> <<>>]

(***************************************************************************)
(* Message formatting.                                                     *)
(***************************************************************************)
\* What a formatter returns for (field, params).
Format(fmt, field, params) == [fmt |-> fmt, field |-> field, params |-> params]

\* typeof Messages[loc][name] === 'function', for a locale the catalog has.
HasFormatter(loc, name) == loc \in DOMAIN Messages /\ name \in DOMAIN Messages[loc]

\* formatErrorMessage, had it used the English formatter in every case.
formatErrorMessageEnglishOnly(i, field, rule) ==
    IF HasFormatter("en", rule.name)
    THEN [ok |-> TRUE, msg |-> Format(Messages["en"][rule.name], field, rule.params)]
    ELSE [ok |-> FALSE, msg |-> Format("none", field, rule.params)]

\* formatErrorMessage(field, rule) of instance i: ok is FALSE when the call
\* throws (the formatter looked up is undefined).
formatErrorMessage(i, field, rule) ==
    IF ~HasFormatter(locale[i], rule.name)
    THEN IF HasFormatter("en", rule.name)
         THEN [ok |-> TRUE, msg |-> Format(Messages["en"][rule.name], field, rule.params)]
         ELSE [ok |-> FALSE, msg |-> Format("none", field, rule.params)]
    ELSE [ok |-> TRUE,
          msg |-> Format(Messages[locale[i]][rule.name], field, rule.params)]

(***************************************************************************)
(* test, validate and validateAll.  They run on the part of the state they *)
(* write: st.bag is the instance's Error Bag, st.pend the outstanding      *)
(* promises, st.test the value the running method would return, st.err     *)
(* the exception that ended it ("none" while it runs).                     *)
(***************************************************************************)
Bool(b) == [kind |-> "bool", val |-> b]

\* A promise as a returned value; what it resolves to is decided later.
Promise == [kind |-> "promise", val |-> FALSE]

Running(i) == [bag |-> errorBag[i], pend |-> pending, test |-> Bool(TRUE), err |-> "none"]

\* The then-callback of test registered on the predicate's promise.
Callback(i, name, rule) == [inst |-> i, field |-> name, rule |-> rule, latest |-> TRUE]

\* test, had it taken a rule name the Rule Registry does not have as a rule that
\* passes.
testSkippingUnregistered(i, st, name, value, rule) ==
    IF rule.name \notin DOMAIN Rules
    THEN [st EXCEPT !.test = Bool(TRUE)]
    ELSE LET valid == Apply(Rules[rule.name], value, rule.params)
             m     == formatErrorMessage(i, name, rule)
         IN  IF valid.kind = "promise"
             THEN [st EXCEPT !.pend = Append(@, Callback(i, name, rule)),
                             !.test = Promise]
             ELSE IF valid.val
                  THEN [st EXCEPT !.test = valid]
                  ELSE IF m.ok
                       THEN [st EXCEPT !.bag = BagAdd(@, name, m.msg, TRUE),
                                       !.test = valid]
                       ELSE [st EXCEPT !.err = "TypeError"]

\* test, had it waited for the promise, here one that resolves to an invalid
\* sub-check, before returning.
testAwaiting(i, st, name, value, rule) ==
    IF rule.name \notin DOMAIN Rules
    THEN [st EXCEPT !.err = "TypeError"]
    ELSE LET valid == Apply(Rules[rule.name], value, rule.params)
             m     == formatErrorMessage(i, name, rule)
         IN  IF valid.kind = "promise" \/ ~valid.val
             THEN IF m.ok
                  THEN [st EXCEPT !.bag = BagAdd(@, name, m.msg, TRUE),
                                  !.test = Bool(FALSE)]
                  ELSE [st EXCEPT !.err = "TypeError"]
             ELSE [st EXCEPT !.test = valid]

\* test(name, value, rule) of instance i
test(i, st, name, value, rule) ==
    IF rule.name \notin DOMAIN Rules
    THEN [st EXCEPT !.err = "TypeError"]
    ELSE LET valid == Apply(Rules[rule.name], value, rule.params)
             m     == formatErrorMessage(i, name, rule)
         IN  IF valid.kind = "promise"
             THEN [st EXCEPT !.pend = Append(@, Callback(i, name, rule)),
                             !.test = Promise]
             ELSE IF ~valid.val
                  THEN IF m.ok
                       THEN [st EXCEPT !.bag = BagAdd(@, name, m.msg, TRUE),
                                       !.test = valid]
                       ELSE [st EXCEPT !.err = "TypeError"]
                  ELSE [st EXCEPT !.test = valid]

\* The loop of validate, had it kept the conjunction of the rules' results.
RECURSIVE forEachRuleConjunction(_, _, _, _, _, _)
forEachRuleConjunction(i, st, name, value, chain, k) ==
    IF k > Len(chain) \/ st.err # "none" THEN st
    ELSE LET st2 == test(i, st, name, value, chain[k])
             both == IF st.test.kind = "bool" /\ st2.test.kind = "bool"
                     THEN Bool(st.test.val /\ st2.test.val)
                     ELSE st2.test
         IN  forEachRuleConjunction(i, [st2 EXCEPT !.test = both], name, value,
                                    chain, k + 1)

\* this.validations[name].forEach(rule => { test = this.test(name, value, rule) })
RECURSIVE forEachRule(_, _, _, _, _, _)
forEachRule(i, st, name, value, chain, k) ==
    IF k > Len(chain) \/ st.err # "none" THEN st
    ELSE forEachRule(i, test(i, st, name, value, chain[k]), name, value, chain, k + 1)

\* A new validate pass of (i, name) begins: the callbacks still outstanding
\* for that field now belong to an earlier pass (history only).
Supersede(pend, i, name) ==
    [k \in 1..Len(pend) |->
        IF pend[k].inst = i /\ pend[k].field = name
        THEN [pend[k] EXCEPT !.latest = FALSE]
        ELSE pend[k]]

\* validate, had it not removed the field's entries first.
validateKeepingErrors(i, st, name, value) ==
    LET st1 == [st EXCEPT !.pend = Supersede(@, i, name), !.test = Bool(TRUE)]
    IN  IF name \notin DOMAIN validations[i]
        THEN [st1 EXCEPT !.err = "TypeError"]
        ELSE forEachRule(i, st1, name, value, validations[i][name], 1)

\* validate, had it skipped a field that has no chain and returned true.
validateSkippingMissingChain(i, st, name, value) ==
    LET st1 == [st EXCEPT !.bag  = BagRemove(@, name),
                          !.pend = Supersede(@, i, name),
                          !.test = Bool(TRUE)]
    IN  IF name \notin DOMAIN validations[i]
        THEN st1
        ELSE forEachRule(i, st1, name, value, validations[i][name], 1)

\* validate(name, value) of instance i
validate(i, st, name, value) ==
    LET st1 == [st EXCEPT !.bag  = BagRemove(@, name),
                          !.pend = Supersede(@, i, name),
                          !.test = Bool(TRUE)]
    IN  IF name \notin DOMAIN validations[i]
        THEN [st1 EXCEPT !.err = "TypeError"]
        ELSE forEachRule(i, st1, name, value, validations[i][name], 1)

\* The loop of validateAll, had it kept the conjunction of the fields' results.
RECURSIVE forEachPropertyConjunction(_, _, _, _)
forEachPropertyConjunction(i, st, values, k) ==
    IF k > Len(values) \/ st.err # "none" THEN st
    ELSE LET st2 == validate(i, st, values[k][1], values[k][2])
             both == IF st.test.kind = "bool" /\ st2.test.kind = "bool"
                     THEN Bool(st.test.val /\ st2.test.val)
                     ELSE st2.test
         IN  forEachPropertyConjunction(i, [st2 EXCEPT !.test = both], values, k + 1)

\* Object.keys(values).forEach(property => { test = this.validate(...) });
\* values is the sequence of the object's <<key, value>> members.
RECURSIVE forEachProperty(_, _, _, _)
forEachProperty(i, st, values, k) ==
    IF k > Len(values) \/ st.err # "none" THEN st
    ELSE forEachProperty(i, validate(i, st, values[k][1], values[k][2]), values, k + 1)

\* validateAll, had it removed only the entries of the fields it validates.
validateAllWithoutClear(i, st, values) ==
    forEachProperty(i, [st EXCEPT !.test = Bool(TRUE)], values, 1)

\* validateAll(values) of instance i
validateAll(i, st, values) ==
    forEachProperty(i, [st EXCEPT !.bag = BagClear(@), !.test = Bool(TRUE)], values, 1)

\* The reduction, had it joined the flags with || in place of &&.
RECURSIVE reduceValidOr(_, _, _)
reduceValidOr(values, k, prev) ==
    IF k > Len(values) THEN prev
    ELSE reduceValidOr(values, k + 1, prev \/ values[k])

\* values.reduce((prev, curr) => prev && curr.valid, true)
RECURSIVE reduceValid(_, _, _)
reduceValid(values, k, prev) ==
    IF k > Len(values) THEN prev
    ELSE reduceValid(values, k + 1, prev /\ values[k])

(***************************************************************************)
(* Inputs.                                                                 *)
(***************************************************************************)
\* Rule expressions handed to the constructor and to attach.
ExprSyncPair == <<"r", "|", "m", ":", "1">>

ExprMinFirst == <<"m", ":", "2", "|", "r">>

ExprAsyncThenSync == <<"p", "|", "r">>

Exprs == {ExprSyncPair, ExprMinFirst, ExprAsyncThenSync}

\* Arguments of the constructor: none, or both fields with a chain.
CtorArgs == {<<>>, <<<<"a", ExprAsyncThenSync>>, <<"b", ExprSyncPair>>>>}

\* Arguments of attach: field a takes every chain, field b the synchronous ones.
AttachArgs ==
    {arg \in Fields \X Exprs : arg[1] = "a" \/ arg[2] # ExprAsyncThenSync}

\* Objects handed to validateAll, as the sequence of their members.
ValueMaps ==
    {<<>>}
    \cup {<<<<f, v>>>> : f \in Fields, v \in Values}
    \cup {<<<<fg[1], v>>, <<fg[2], w>>>> :
            fg \in {x \in Fields \X Fields : x[1] # x[2]}, v \in Values, w \in Values}

\* The keys of such an object, in iteration order.
Keys(values) == [k \in 1..Len(values) |-> values[k][1]]

\* What the promise of a predicate resolves to: the sub-checks' valid flags.
AsyncResults == {<<>>, <<TRUE>>, <<TRUE, FALSE>>, <<FALSE, FALSE>>}

(***************************************************************************)
(* The extension mechanism.  A validator handed to extend is a function    *)
(* (fn, with call the function itself) or an object with the members       *)
(* validate, getMessage and messages, each of which may be undefined.      *)
(***************************************************************************)
Undefined == "undefined"

NoMessages == [defined |-> FALSE, map |-> EmptyMap]

MessagesOf(map) == [defined |-> TRUE, map |-> map]

\* An object with none of the members.
NoValidator ==
    [fn |-> FALSE, call |-> Undefined, validate |-> Undefined,
     getMessage |-> Undefined, messages |-> NoMessages]

FunctionValidator(pred) == [NoValidator EXCEPT !.fn = TRUE, !.call = pred]

ObjectValidator(pred, getMessage, messages) ==
    [NoValidator EXCEPT !.validate = pred, !.getMessage = getMessage,
                        !.messages = messages]

\* guardExtend, without its check of the name.
guardExtendAnyName(name, validator) ==
    IF validator.fn THEN "none"
    ELSE IF validator.validate = Undefined THEN "ValidatorException"
    ELSE IF validator.getMessage = Undefined /\ ~validator.messages.defined
         THEN "ValidatorException"
    ELSE "none"

\* guardExtend(name, validator): the exception thrown, "none" when it returns.
guardExtend(name, validator) ==
    IF name \in DOMAIN Rules THEN "ValidatorException"
    ELSE IF validator.fn THEN "none"
    ELSE IF validator.validate = Undefined THEN "ValidatorException"
    ELSE IF validator.getMessage = Undefined /\ ~validator.messages.defined
         THEN "ValidatorException"
    ELSE "none"

\* Messages[loc][name] = fmt, creating Messages[loc] when absent.
SetFormatter(msgs, loc, name, fmt) ==
    Put(msgs, loc, Put(IF loc \in DOMAIN msgs THEN msgs[loc] ELSE EmptyMap, name, fmt))

\* Object.keys(map).forEach(locale => ...) over the locales in locs.
RECURSIVE mergeMessages(_, _, _, _)
mergeMessages(msgs, name, map, locs) ==
    IF locs = {} THEN msgs
    ELSE LET loc == CHOOSE l \in locs : TRUE
         IN  mergeMessages(SetFormatter(msgs, loc, name, map[loc]), name, map,
                           locs \ {loc})

\* merge, had it installed the default English formatter for an object without
\* getMessage as it does for a function.
mergeDefaultEnglish(name, validator) ==
    LET withEn == SetFormatter(Messages, "en", name,
                      IF validator.fn \/ validator.getMessage = Undefined
                      THEN "Default" ELSE validator.getMessage)
    IN  [rules |-> Put(Rules, name, IF validator.fn THEN validator.call
                                    ELSE validator.validate),
         msgs  |-> IF ~validator.fn /\ validator.messages.defined
                   THEN mergeMessages(withEn, name, validator.messages.map,
                                      DOMAIN validator.messages.map)
                   ELSE withEn]

\* merge(name, validator): the Rules and Messages it leaves.
merge(name, validator) ==
    IF validator.fn
    THEN [rules |-> Put(Rules, name, validator.call),
          msgs  |-> SetFormatter(Messages, "en", name, "Default")]
    ELSE LET withEn == IF validator.getMessage # Undefined
                       THEN SetFormatter(Messages, "en", name, validator.getMessage)
                       ELSE Messages
         IN  [rules |-> Put(Rules, name, validator.validate),
              msgs  |-> IF validator.messages.defined
                        THEN mergeMessages(withEn, name, validator.messages.map,
                                           DOMAIN validator.messages.map)
                        ELSE withEn]

\* extend, had it merged the validator before guarding.
extendMergeFirst(name, validator) ==
    [err |-> guardExtend(name, validator),
     rules |-> merge(name, validator).rules,
     msgs |-> merge(name, validator).msgs]

\* static extend(name, validator)
extend(name, validator) ==
    LET err == guardExtend(name, validator)
    IN  IF err # "none"
        THEN [err |-> err, rules |-> Rules, msgs |-> Messages]
        ELSE [err |-> "none", rules |-> merge(name, validator).rules,
              msgs |-> merge(name, validator).msgs]

\* Object.keys(messages[locale]).forEach(name => ...) over the names in names.
RECURSIVE updateLocale(_, _, _, _)
updateLocale(msgs, loc, entries, names) ==
    IF names = {} THEN msgs
    ELSE LET name == CHOOSE n \in names : TRUE
         IN  updateLocale(SetFormatter(msgs, loc, name, entries[name]), loc, entries,
                          names \ {name})

\* static updateDictionary(messages), over the locales in locs.
RECURSIVE updateDictionaryFrom(_, _, _)
updateDictionaryFrom(msgs, messages, locs) ==
    IF locs = {} THEN msgs
    ELSE LET loc     == CHOOSE l \in locs : TRUE
             created == IF loc \in DOMAIN msgs THEN msgs ELSE Put(msgs, loc, EmptyMap)
         IN  updateDictionaryFrom(
                 updateLocale(created, loc, messages[loc], DOMAIN messages[loc]),
                 messages, locs \ {loc})

\* updateDictionary, had it assigned each supplied locale's object as a whole.
updateDictionaryReplacingLocales(messages) ==
    [loc \in DOMAIN Messages \cup DOMAIN messages |->
        IF loc \in DOMAIN messages THEN messages[loc] ELSE Messages[loc]]

updateDictionary(messages) == updateDictionaryFrom(Messages, messages, DOMAIN messages)

(***************************************************************************)
(* The record of the last operation.                                       *)
(***************************************************************************)
NoOp ==
    [op |-> "new", inst |-> "v1", field |-> "", value |-> 0, keys |-> <<>>,
     ret |-> Bool(TRUE), err |-> "none", vals |-> <<>>,
     had |-> {}, name |-> <<>>, arg |-> NoValidator, values |-> <<>>,
     checks |-> <<>>, messages |-> EmptyMap, args |-> <<>>]

Did(op, i) == [NoOp EXCEPT !.op = op, !.inst = i]

\* The fields among names that hold entries in instance i as the operation begins.
WithEntries(i, names) == {f \in names : errorBag[i][f] # <<>>}

(***************************************************************************)
(* Initial state: the module's imports, and new Validator(args).           *)
(***************************************************************************)
Constructed(args) ==
    /\ Rules = InitRules
    /\ Messages = InitMessages
    /\ locale = [i \in Insts |-> "en"]
    /\ validations = [i \in Insts |-> normalize(args)]
    /\ errorBag = [i \in Insts |-> NewErrorBag]
    /\ pending = <<>>
    /\ last = [NoOp EXCEPT !.args = args]

Init == \E args \in CtorArgs : Constructed(args)

\* new Validator() without an argument.
InitExt == Constructed(<<>>)

(***************************************************************************)
(* Operations.                                                             *)
(***************************************************************************)
\* attach, had it appended the parsed rules to the chain the field already has.
AttachAppending(i, name, checks) ==
    /\ validations' = [validations EXCEPT ![i] =
           Put(@, name, (IF name \in DOMAIN @ THEN @[name] ELSE <<>>) \o parseChain(checks))]
    /\ errorBag' = [errorBag EXCEPT ![i] = BagRemove(@, name)]
    /\ last' = [Did("attach", i) EXCEPT !.field = name, !.had = WithEntries(i, {name}),
                                        !.checks = checks]
    /\ UNCHANGED <<Rules, Messages, locale, pending>>

\* attach(name, checks)
Attach(i, name, checks) ==
    /\ validations' = [validations EXCEPT ![i] = Put(@, name, parseChain(checks))]
    /\ errorBag' = [errorBag EXCEPT ![i] = BagRemove(@, name)]
    /\ last' = [Did("attach", i) EXCEPT !.field = name, !.had = WithEntries(i, {name}),
                                        !.checks = checks]
    /\ UNCHANGED <<Rules, Messages, locale, pending>>

\* detach, had it removed the field's entries as attach does.
DetachClearingErrors(i, name) ==
    /\ validations' = [validations EXCEPT ![i] = Delete(@, name)]
    /\ errorBag' = [errorBag EXCEPT ![i] = BagRemove(@, name)]
    /\ last' = [Did("detach", i) EXCEPT !.field = name]
    /\ UNCHANGED <<Rules, Messages, locale, pending>>

\* detach(name)
Detach(i, name) ==
    /\ validations' = [validations EXCEPT ![i] = Delete(@, name)]
    /\ last' = [Did("detach", i) EXCEPT !.field = name]
    /\ UNCHANGED <<Rules, Messages, locale, errorBag, pending>>

\* validate(name, value), to its return or to the exception that ends it.
Validate(i, name, value) ==
    LET st == validate(i, Running(i), name, value)
    IN  /\ Len(st.pend) <= MaxPending
        /\ errorBag' = [errorBag EXCEPT ![i] = st.bag]
        /\ pending' = st.pend
        /\ last' = [Did("validate", i) EXCEPT
                       !.field = name, !.value = value,
                       !.had = WithEntries(i, {name}),
                       !.ret = IF st.err = "none" THEN st.test ELSE Bool(FALSE),
                       !.err = st.err]
        /\ UNCHANGED <<Rules, Messages, locale, validations>>

\* validateAll(values), to its return or to the exception that ends it.
ValidateAll(i, values) ==
    LET st == validateAll(i, Running(i), values)
    IN  /\ Len(st.pend) <= MaxPending
        /\ errorBag' = [errorBag EXCEPT ![i] = st.bag]
        /\ pending' = st.pend
        /\ last' = [Did("validateAll", i) EXCEPT
                       !.keys = Keys(values), !.values = values,
                       !.had = WithEntries(i, Fields),
                       !.field = IF values = <<>> THEN "" ELSE values[Len(values)][1],
                       !.value = IF values = <<>> THEN 0 ELSE values[Len(values)][2],
                       !.ret = IF st.err = "none" THEN st.test ELSE Bool(FALSE),
                       !.err = st.err]
        /\ UNCHANGED <<Rules, Messages, locale, validations>>

\* pending without its k-th element.
Without(pend, k) == SubSeq(pend, 1, k - 1) \o SubSeq(pend, k + 1, Len(pend))

\* The k-th outstanding promise resolves to values: the then-callback of test
\* runs.  err is TypeError when formatErrorMessage throws in the callback, so
\* that the promise test returned is rejected.
Resolve(k, values) ==
    LET cb       == pending[k]
        allValid == reduceValid(values, 1, TRUE)
        m        == formatErrorMessage(cb.inst, cb.field, cb.rule)
        add      == ~allValid /\ m.ok
    IN  /\ errorBag' = IF add
                       THEN [errorBag EXCEPT ![cb.inst] =
                                BagAdd(@, cb.field, m.msg, cb.latest)]
                       ELSE errorBag
        /\ pending' = Without(pending, k)
        /\ last' = [Did("resolve", cb.inst) EXCEPT
                       !.field = cb.field, !.vals = values,
                       !.ret = Bool(allValid),
                       !.err = IF ~allValid /\ ~m.ok THEN "TypeError" ELSE "none"]
        /\ UNCHANGED <<Rules, Messages, locale, validations>>

\* The k-th outstanding promise is rejected: the then-callback never runs.
Reject(k) ==
    /\ pending' = Without(pending, k)
    /\ last' = [Did("reject", pending[k].inst) EXCEPT !.field = pending[k].field]
    /\ UNCHANGED <<Rules, Messages, locale, validations, errorBag>>


\* The instance the single-instance specification drives.
V1 == "v1"

Next ==
    \/ \E arg \in AttachArgs : Attach(V1, arg[1], arg[2])
    \/ \E name \in Fields : Detach(V1, name)
    \/ \E name \in Fields, value \in Values : Validate(V1, name, value)
    \/ \E values \in ValueMaps : ValidateAll(V1, values)
    \/ \E k \in 1..Len(pending), values \in AsyncResults : Resolve(k, values)
    \/ \E k \in 1..Len(pending) : Reject(k)

Spec == Init /\ [][Next]_vars

\* setLocale(language)
SetLocale(i, language) ==
    /\ locale' = [locale EXCEPT ![i] = language]
    /\ last' = Did("setLocale", i)
    /\ UNCHANGED <<Rules, Messages, validations, errorBag, pending>>

\* extend, had the method of an instance merged the validator without the guard
\* of the static form.
ExtendUnguardedThroughInstance(via, name, validator) ==
    LET r == IF via = "static" THEN extend(name, validator)
             ELSE [err |-> "none", rules |-> merge(name, validator).rules,
                   msgs |-> merge(name, validator).msgs]
    IN  /\ Rules' = r.rules
        /\ Messages' = r.msgs
        /\ last' = [Did("extend", via) EXCEPT
                       !.name = name, !.arg = validator, !.err = r.err]
        /\ UNCHANGED <<locale, validations, errorBag, pending>>

\* Validator.extend(name, validator) when via is "static", and the extend
\* method of instance via otherwise, which forwards to it.
Extend(via, name, validator) ==
    LET r == extend(name, validator)
    IN  /\ Rules' = r.rules
        /\ Messages' = r.msgs
        /\ last' = [Did("extend", via) EXCEPT
                       !.name = name, !.arg = validator, !.err = r.err]
        /\ UNCHANGED <<locale, validations, errorBag, pending>>

\* Validator.updateDictionary(messages), static or through instance via.
UpdateDictionary(via, messages) ==
    /\ Messages' = updateDictionary(messages)
    /\ last' = [Did("updateDictionary", via) EXCEPT !.messages = messages]
    /\ UNCHANGED <<Rules, locale, validations, errorBag, pending>>

\* Validators handed to extend.
ExtValidators ==
    {FunctionValidator("IsOne"),
     ObjectValidator("IsOne", "getMessageX", NoMessages),
     ObjectValidator("IsOne", Undefined, MessagesOf("fr" :> "frX")),
     ObjectValidator("Remote", "getMessageX", MessagesOf(("en" :> "enX") @@ ("fr" :> "frX"))),
     ObjectValidator(Undefined, "getMessageX", NoMessages),
     ObjectValidator("IsOne", Undefined, NoMessages)}

\* Names handed to extend: a new one and a built-in one.
ExtNames == {X, R}

\* Objects handed to updateDictionary.
Dictionaries ==
    {"fr" :> ((R :> "frR") @@ (M :> "frM")),
     ("en" :> (R :> "enR2")) @@ ("xx" :> EmptyMap)}

\* x is no rule until extend registers it.
ExprExtended == <<"r", "|", "x">>

\* The forms of a static method: the class, or an instance that forwards.
Forms == {"static"} \cup Insts

NextExt ==
    \/ \E via \in Forms, name \in ExtNames, validator \in ExtValidators :
           Extend(via, name, validator)
    \/ \E via \in Forms, messages \in Dictionaries : UpdateDictionary(via, messages)
    \/ \E language \in Locales : SetLocale(V1, language)
    \/ \E checks \in {ExprExtended, ExprSyncPair} : Attach(V1, "a", checks)
    \/ \E value \in Values :
           Validate(V1, "a", value) /\ Len(pending') <= MaxPendingExt
    \/ \E k \in 1..Len(pending), values \in AsyncResults : Resolve(k, values)
    \/ \E k \in 1..Len(pending) : Reject(k)

\* The registries under extension, with one field validated against them.
SpecExt == InitExt /\ [][NextExt]_vars

\* Validators handed to extend where two instances share the registries: a
\* function, objects with an English, with only a French and with no message.
InstValidators ==
    {FunctionValidator("IsOne"),
     ObjectValidator("IsOne", "getMessageX", NoMessages),
     ObjectValidator("IsOne", Undefined, MessagesOf("fr" :> "frX")),
     ObjectValidator("IsOne", Undefined, NoMessages)}

\* The dictionary handed to updateDictionary there.
InstDictionary == "fr" :> ((R :> "frR") @@ (M :> "frM"))

NextInst ==
    \/ \E via \in Forms, name \in ExtNames, validator \in InstValidators :
           Extend(via, name, validator)
    \/ \E via \in Forms : UpdateDictionary(via, InstDictionary)
    \/ \E i \in Insts, checks \in {ExprExtended, ExprSyncPair} : Attach(i, "a", checks)
    \/ \E i \in Insts : Detach(i, "a")
    \/ \E i \in Insts, value \in Values : Validate(i, "a", value)
    \/ \E i \in Insts, value \in Values : ValidateAll(i, <<<<"a", value>>>>)

\* Two instances over the shared registries.
SpecInst == InitExt /\ [][NextInst]_vars

\* Rule expressions handed to the parser: "a:x,y|b", "r", "", "m:", ":1",
\* "r|m:1|b", and with a second ':' in a segment "m:1:2" and "m:1,2:3|r".
ParseExprs ==
    {<<"a", ":", "x", ",", "y", "|", "b">>,
     <<"r">>,
     <<>>,
     <<"m", ":">>,
     <<":", "1">>,
     <<"r", "|", "m", ":", "1", "|", "b">>,
     <<"m", ":", "1", ":", "2">>,
     <<"m", ":", "1", ",", "2", ":", "3", "|", "r">>}

\* new Validator({a: checks}) for any of the expressions.
InitParse == \E checks \in ParseExprs : Constructed(<<<<"a", checks>>>>)

NextParse ==
    \E name \in Fields, checks \in ParseExprs : Attach(V1, name, checks)

\* The parser, through the constructor and through attach.
SpecParse == InitParse /\ [][NextParse]_vars

(***************************************************************************)
(* Vocabulary of the properties.                                           *)
(***************************************************************************)
\* The entries as a caller reads them: field and message.
Shown(entries) ==
    [k \in 1..Len(entries) |-> [field |-> entries[k].field, msg |-> entries[k].msg]]

\* The rule is registered and its predicate answers value with a boolean.
IsSynchronous(rule, value) ==
    /\ rule.name \in DOMAIN Rules
    /\ Apply(Rules[rule.name], value, rule.params).kind = "bool"

SynchronousChain(chain, value) == \A k \in 1..Len(chain) : IsSynchronous(chain[k], value)

\* The rule's predicate rejects value.
Fails(rule, value) == ~Apply(Rules[rule.name], value, rule.params).val

\* One formatted entry per rule of the chain that fails for value, in chain order.
ExpectedEntries(i, name, value) ==
    LET failed == SelectSeq(validations[i][name], LAMBDA rule : Fails(rule, value))
    IN  [k \in 1..Len(failed) |->
            [field |-> name, msg |-> formatErrorMessage(i, name, failed[k]).msg]]

\* The state is the one validate returned in.
ValidateReturned == last.op = "validate" /\ last.err = "none"

\* The state is the one validateAll returned in.
ValidateAllReturned == last.op = "validateAll" /\ last.err = "none"

\* The chain validate has just run.
LastChain == validations[last.inst][last.field]

\* The keys of the object validateAll was handed.
LastKeys == {last.keys[k] : k \in 1..Len(last.keys)}

\* The logical AND of the sub-checks' valid flags.
AllValid(flags) == \A k \in 1..Len(flags) : flags[k]

(***************************************************************************)
(* Properties.                                                             *)
(***************************************************************************)
\* C1: when validate(field, value) has returned for a field whose chain holds
\* only synchronous rules, the field's entries are exactly one formatted entry
\* per rule that failed for value, in chain order, whatever the field held before.
C1_ValidateRecordsExactlyTheFailures ==
    ValidateReturned /\ SynchronousChain(LastChain, last.value)
        => Shown(errorBag[last.inst][last.field])
               = ExpectedEntries(last.inst, last.field, last.value)

\* validate returned with two failing rules recorded for a field that held
\* entries when it was called.
C1_Witness ==
    /\ ValidateReturned
    /\ SynchronousChain(LastChain, last.value)
    /\ last.field \in last.had
    /\ Len(errorBag[last.inst][last.field]) = 2

\* C2: in every reachable state every entry the Error Bag holds for a field
\* was produced by that field's most recent validate pass.
C2_EntriesAreOfTheLatestPass ==
    \A i \in Insts, f \in Fields :
        \A k \in 1..Len(errorBag[i][f]) : errorBag[i][f][k].latest

\* C3: validate returns the result of the last rule of the chain, not the
\* conjunction: when an earlier synchronous rule fails and the last one
\* passes it returns true while the bag holds an entry for the field.
C3_ValidateReturnsLastRule ==
    ValidateReturned =>
        LET lastRule == LastChain[Len(LastChain)]
            result   == Apply(Rules[lastRule.name], last.value, lastRule.params)
        IN  /\ last.ret = IF result.kind = "promise" THEN Promise ELSE Bool(result.val)
            /\ ( /\ SynchronousChain(LastChain, last.value)
                 /\ \E k \in 1..(Len(LastChain) - 1) : Fails(LastChain[k], last.value)
                 /\ ~Fails(lastRule, last.value) )
               => /\ last.ret = Bool(TRUE)
                  /\ errorBag[last.inst][last.field] # <<>>

\* validate returned true for a synchronous chain one of whose earlier rules
\* failed, and the failure is in the bag.
C3_Witness ==
    /\ ValidateReturned
    /\ SynchronousChain(LastChain, last.value)
    /\ \E k \in 1..(Len(LastChain) - 1) : Fails(LastChain[k], last.value)
    /\ last.ret = Bool(TRUE)
    /\ errorBag[last.inst][last.field] # <<>>

\* C4: validateAll returns what validate returned for the last key of values
\* (true when values has no keys), not the conjunction over the fields.
C4_ValidateAllReturnsLastField ==
    ValidateAllReturned =>
        IF last.keys = <<>>
        THEN last.ret = Bool(TRUE)
        ELSE last.ret = validate(last.inst, Running(last.inst), last.field, last.value).test

\* validateAll over two fields returned true although the first field has a
\* recorded error.
C4_Witness ==
    /\ ValidateAllReturned
    /\ Len(last.keys) = 2
    /\ last.ret = Bool(TRUE)
    /\ errorBag[last.inst][last.keys[1]] # <<>>

\* The callbacks outstanding for field f of instance i, oldest first.
CallbacksOf(pend, i, f) == SelectSeq(pend, LAMBDA cb : cb.inst = i /\ cb.field = f)

\* C5: validateAll(values) empties the whole Error Bag before validating: when
\* it has returned, every field that is not a key of values holds no entry,
\* and no such field was validated (its outstanding callbacks are as before).
C5_ValidateAllClearsOtherFields ==
    [][last'.op = "validateAll" /\ last'.err = "none" =>
          \A f \in Fields :
              (\A k \in 1..Len(last'.keys) : last'.keys[k] # f)
                  => /\ errorBag'[last'.inst][f] = <<>>
                     /\ CallbacksOf(pending', last'.inst, f)
                            = CallbacksOf(pending, last'.inst, f)
      ]_vars

\* validateAll returned, and an attached field that is not a key of values
\* held entries when it was called.
C5_Witness ==
    /\ ValidateAllReturned
    /\ \E f \in (DOMAIN validations[last.inst]) \ LastKeys :
           f \in last.had /\ errorBag[last.inst][f] = <<>>

\* C6: detach(field) removes that field's chain and nothing else: the Error
\* Bag, the entries of the field among it, and every other chain are as before.
C6_DetachRemovesOnlyTheChain ==
    [][last'.op = "detach" =>
          /\ errorBag' = errorBag
          /\ last'.field \notin DOMAIN validations'[last'.inst]
          /\ \A g \in Fields \ {last'.field} :
                 /\ g \in DOMAIN validations'[last'.inst]
                        <=> g \in DOMAIN validations[last'.inst]
                 /\ g \in DOMAIN validations[last'.inst]
                        => validations'[last'.inst][g] = validations[last'.inst][g]
          /\ \A j \in Insts \ {last'.inst} : validations'[j] = validations[j]
      ]_vars

\* A field was detached and its entries are still in the bag.
C6_Witness ==
    /\ last.op = "detach"
    /\ last.field \notin DOMAIN validations[last.inst]
    /\ errorBag[last.inst][last.field] # <<>>

\* C7: while a field is detached no entry for it is appended to the Error
\* Bag, by later validate and validateAll calls or by the resolution of a
\* promise that a validate call made before the detach.
C7_NoEntryForDetachedField ==
    [][\A i \in Insts, f \in Fields :
          f \notin DOMAIN validations[i] /\ f \notin DOMAIN validations'[i]
              => Len(errorBag'[i][f]) <= Len(errorBag[i][f])
      ]_vars

\* C8: once a rule name is registered, extend under that name fails with the
\* extension exception, through the class or through an instance, and no
\* step replaces or removes the predicate bound to a registered name.
C8_RegisteredNameIsNeverRebound ==
    [][/\ \A n \in DOMAIN Rules : n \in DOMAIN Rules' /\ Rules'[n] = Rules[n]
       /\ last'.op = "extend" /\ last'.name \in DOMAIN Rules
              => last'.err = "ValidatorException"
      ]_vars

\* extend was refused for a name that an earlier extend registered, although
\* the validator handed over is well formed.
C8_Witness ==
    /\ last.op = "extend"
    /\ last.name = X
    /\ last.arg = FunctionValidator("IsOne")
    /\ last.err = "ValidatorException"
    /\ last.inst # "static"

\* The call extend(name, validator) is one of the three the contract refuses.
Refused(name, validator) ==
    \/ name \in DOMAIN Rules
    \/ ~validator.fn /\ validator.validate = Undefined
    \/ ~validator.fn /\ validator.getMessage = Undefined /\ ~validator.messages.defined

\* C9: extend fails with the extension exception when the name is registered,
\* when the object has no callable validate, or when it has neither a callable
\* getMessage nor a messages mapping, and then leaves Rules and Messages as
\* they were.
C9_RefusedExtendChangesNothing ==
    [][last'.op = "extend" /\ Refused(last'.name, last'.arg)
          => /\ last'.err = "ValidatorException"
             /\ Rules' = Rules
             /\ Messages' = Messages
      ]_vars

\* extend was refused for an unregistered name because the object has a
\* validate member and no message source.
C9_Witness ==
    /\ last.op = "extend"
    /\ last.name \notin DOMAIN Rules
    /\ last.arg = ObjectValidator("IsOne", Undefined, NoMessages)
    /\ last.err = "ValidatorException"

\* C10: when the promise of a predicate resolves to a sequence of sub-check
\* results and the callback completes, the promise test returned resolves to
\* the AND of the valid flags (true for none), and exactly one entry for the
\* field is appended when that is false, none when it is true.
C10_AsyncReduction ==
    [][last'.op = "resolve" /\ last'.err = "none" =>
          LET i   == last'.inst
              f   == last'.field
              new == errorBag'[i][f]
          IN  /\ last'.ret = Bool(AllValid(last'.vals))
              /\ \A j \in Insts, g \in Fields :
                     j # i \/ g # f => errorBag'[j][g] = errorBag[j][g]
              /\ IF AllValid(last'.vals)
                 THEN new = errorBag[i][f]
                 ELSE /\ Len(new) = Len(errorBag[i][f]) + 1
                      /\ SubSeq(new, 1, Len(new) - 1) = errorBag[i][f]
                      /\ new[Len(new)].field = f
      ]_vars

\* A promise resolved to two invalid sub-checks and the field holds one entry.
C10_Witness ==
    /\ last.op = "resolve"
    /\ last.vals = <<FALSE, FALSE>>
    /\ last.ret = Bool(FALSE)
    /\ Len(errorBag[last.inst][last.field]) = 1

\* One formatted entry per synchronous rule of the chain that fails for value,
\* in chain order.
ExpectedSyncEntries(i, name, value) ==
    LET failed == SelectSeq(validations[i][name],
                      LAMBDA rule : IsSynchronous(rule, value) /\ Fails(rule, value))
    IN  [k \in 1..Len(failed) |->
            [field |-> name, msg |-> formatErrorMessage(i, name, failed[k]).msg]]

\* The asynchronous rules of the chain, for value.
AsyncRules(chain, value) ==
    SelectSeq(chain, LAMBDA rule : ~IsSynchronous(rule, value))

\* The rules of the callbacks of the latest pass outstanding for field f.
OutstandingRules(i, f) ==
    LET cbs == SelectSeq(pending, LAMBDA cb : cb.inst = i /\ cb.field = f /\ cb.latest)
    IN  [k \in 1..Len(cbs) |-> cbs[k].rule]

\* C11: validate and validateAll do not wait for asynchronous predicates: when
\* they return, every promise they started is still outstanding, and every
\* field validated holds exactly the entries of its failing synchronous rules,
\* the ones declared after an asynchronous rule and those of the other fields
\* included.
C11_ValidationDoesNotWait ==
    /\ ValidateReturned =>
           /\ Shown(errorBag[last.inst][last.field])
                  = ExpectedSyncEntries(last.inst, last.field, last.value)
           /\ OutstandingRules(last.inst, last.field) = AsyncRules(LastChain, last.value)
    /\ ValidateAllReturned =>
           \A k \in 1..Len(last.values) :
               LET f == last.values[k][1]
                   v == last.values[k][2]
               IN  /\ Shown(errorBag[last.inst][f]) = ExpectedSyncEntries(last.inst, f, v)
                   /\ OutstandingRules(last.inst, f)
                          = AsyncRules(validations[last.inst][f], v)

\* validateAll returned while the promise of the first field is outstanding;
\* the synchronous rule declared after it and the rules of the other field
\* have recorded their entries.
C11_Witness ==
    /\ ValidateAllReturned
    /\ Len(last.values) = 2
    /\ last.ret.kind = "bool"
    /\ Len(OutstandingRules(last.inst, last.values[1][1])) = 1
    /\ Len(errorBag[last.inst][last.values[1][1]]) = 1
    /\ Len(errorBag[last.inst][last.values[2][1]]) = 2

\* The chain of field f in a chain mapping, the empty chain when it has none.
ChainOf(chains, f) == IF f \in DOMAIN chains THEN chains[f] ELSE <<>>

\* C12: attach(field, expression) makes the field's chain the parse of the
\* expression, so that no rule of the previous chain remains, and removes every
\* entry of the field from the Error Bag; the chains and the entries of the
\* other fields are unchanged.
C12_AttachReplacesChainAndClearsField ==
    [][last'.op = "attach" =>
          LET i == last'.inst
              f == last'.field
          IN  /\ f \in DOMAIN validations'[i]
              /\ validations'[i][f] = parseChain(last'.checks)
              /\ errorBag'[i][f] = <<>>
              /\ \A g \in Fields \ {f} :
                     /\ g \in DOMAIN validations'[i] <=> g \in DOMAIN validations[i]
                     /\ ChainOf(validations'[i], g) = ChainOf(validations[i], g)
                     /\ errorBag'[i][g] = errorBag[i][g]]_vars

\* attach replaced a chain whose asynchronous rule is still outstanding by a
\* chain without that rule, on a field that had entries, while the other field
\* keeps its entries.
C12_Witness ==
    /\ last.op = "attach"
    /\ last.field \in last.had
    /\ \E k \in 1..Len(pending) :
           /\ pending[k].inst = last.inst
           /\ pending[k].field = last.field
           /\ \A j \in 1..Len(validations[last.inst][last.field]) :
                  validations[last.inst][last.field][j] # pending[k].rule
    /\ \E g \in Fields \ {last.field} : errorBag[last.inst][g] # <<>>

\* The formatter the current locale of instance i selects for a rule name: the
\* locale's own when the catalog has the locale and the entry, the English one
\* otherwise.
SelectedFormatter(i, name) ==
    IF locale[i] \in DOMAIN Messages /\ name \in DOMAIN Messages[locale[i]]
    THEN Messages[locale[i]][name]
    ELSE Messages["en"][name]

\* C13: the message recorded for a failing rule is what the current locale's
\* formatter for that rule returns for the field name and the rule's params
\* when the Message Catalog has that locale and that entry, and what the
\* English formatter returns otherwise; in particular after setLocale to a
\* locale the catalog does not have.
C13_MessageFromLocaleElseEnglish ==
    ValidateReturned =>
        LET i      == last.inst
            f      == last.field
            failed == SelectSeq(LastChain,
                          LAMBDA rule : IsSynchronous(rule, last.value)
                                            /\ Fails(rule, last.value))
        IN  /\ Len(errorBag[i][f]) = Len(failed)
            /\ \A k \in 1..Len(failed) :
                   errorBag[i][f][k].msg
                       = [fmt    |-> SelectedFormatter(i, failed[k].name),
                          field  |-> f,
                          params |-> failed[k].params]

\* Under locale fr, validate recorded a message of the French formatter for a
\* rule that has one and a message of the English formatter for a rule that
\* has none.
C13_Witness ==
    /\ ValidateReturned
    /\ locale[last.inst] = "fr"
    /\ "fr" \in DOMAIN Messages
    /\ Len(errorBag[last.inst][last.field]) = 2
    /\ errorBag[last.inst][last.field][1].msg.fmt = "frR"
    /\ X \notin DOMAIN Messages["fr"]
    /\ X \in DOMAIN Messages["en"]
    /\ errorBag[last.inst][last.field][2].msg.fmt = Messages["en"][X]

\* The position of the first rule of the chain whose name the Rule Registry
\* does not have; 0 when every name is registered.
FirstUnregistered(chain) ==
    IF \A k \in 1..Len(chain) : chain[k].name \in DOMAIN Rules
    THEN 0
    ELSE CHOOSE k \in 1..Len(chain) :
             /\ chain[k].name \notin DOMAIN Rules
             /\ \A j \in 1..(k - 1) : chain[j].name \in DOMAIN Rules

\* C14: validate on a chain containing a rule name absent from the Rule
\* Registry ends in a runtime failure when that rule is reached: it returns no
\* pass/fail value, and the field holds the entries of the failing rules before
\* that rule and no entry for it.
C14_UnregisteredRuleFails ==
    last.op = "validate" /\ last.field \in DOMAIN validations[last.inst]
                         /\ FirstUnregistered(LastChain) > 0
        => LET i      == last.inst
               f      == last.field
               before == SubSeq(LastChain, 1, FirstUnregistered(LastChain) - 1)
               failed == SelectSeq(before,
                             LAMBDA rule : IsSynchronous(rule, last.value)
                                               /\ Fails(rule, last.value))
           IN  /\ last.err = "TypeError"
               /\ Shown(errorBag[i][f])
                      = [k \in 1..Len(failed) |->
                            [field |-> f,
                             msg   |-> formatErrorMessage(i, f, failed[k]).msg]]

\* validate failed at the unregistered rule x after the registered rule before
\* it recorded its entry.
C14_Witness ==
    /\ last.op = "validate"
    /\ last.err = "TypeError"
    /\ last.field \in DOMAIN validations[last.inst]
    /\ FirstUnregistered(LastChain) = 2
    /\ Len(errorBag[last.inst][last.field]) = 1

\* The rule names of the model.
RuleNames == {R, M, P, X}

\* The (locale, rule name) pairs a catalog has a formatter for.
Entries(msgs) == {ln \in (DOMAIN msgs) \X RuleNames : ln[2] \in DOMAIN msgs[ln[1]]}

\* The (locale, rule name) pairs a dictionary supplies.
Supplied(dict) == {ln \in (DOMAIN dict) \X RuleNames : ln[2] \in DOMAIN dict[ln[1]]}

\* C15: updateDictionary sets the formatter of every supplied locale and rule
\* name, creating the locale when the catalog lacks it, and leaves every other
\* entry of the catalog and the whole Rule Registry unchanged; no step of any
\* operation removes an entry of the catalog.
C15_UpdateDictionaryOnlyAddsOrOverwrites ==
    [][/\ last'.op = "updateDictionary" =>
              LET dict == last'.messages
              IN  /\ DOMAIN dict \subseteq DOMAIN Messages'
                  /\ DOMAIN Messages' = DOMAIN Messages \cup DOMAIN dict
                  /\ \A ln \in Supplied(dict) :
                         /\ ln \in Entries(Messages')
                         /\ Messages'[ln[1]][ln[2]] = dict[ln[1]][ln[2]]
                  /\ Entries(Messages') = Entries(Messages) \cup Supplied(dict)
                  /\ \A ln \in Entries(Messages) \ Supplied(dict) :
                         Messages'[ln[1]][ln[2]] = Messages[ln[1]][ln[2]]
                  /\ Rules' = Rules
       /\ DOMAIN Messages \subseteq DOMAIN Messages'
       /\ Entries(Messages) \subseteq Entries(Messages')]_vars

\* updateDictionary created the locale xx and overwrote the English formatter
\* of r, while the English formatter of m and a rule registered by extend are
\* still there.
C15_Witness ==
    /\ last.op = "updateDictionary"
    /\ "xx" \in DOMAIN last.messages
    /\ "xx" \in DOMAIN Messages
    /\ Messages["en"][R] = "enR2"
    /\ Messages["en"][M] = "enM"
    /\ X \in DOMAIN Rules
    /\ "fr" \in DOMAIN Messages

\* The predicate extend registers for a validator.
PredicateOf(validator) == IF validator.fn THEN validator.call ELSE validator.validate

\* C16: extend and updateDictionary called on an instance leave the Rule
\* Registry and the Message Catalog as the static forms leave them for the same
\* arguments; validate on an instance applies a rule the other instance has
\* just registered; and validate, validateAll, attach and detach on one
\* instance change neither the chain mapping nor the Error Bag of the other.
C16_InstancesShareRegistriesOnly ==
    [][/\ last'.op = "extend" =>
              /\ Rules' = extend(last'.name, last'.arg).rules
              /\ Messages' = extend(last'.name, last'.arg).msgs
              /\ last'.err = extend(last'.name, last'.arg).err
       /\ last'.op = "updateDictionary" =>
              /\ Messages' = updateDictionary(last'.messages)
              /\ Rules' = Rules
       /\ ( /\ last.op = "extend" /\ last.err = "none" /\ last.inst \in Insts
            /\ last'.op = "validate" /\ last'.inst \in Insts \ {last.inst}
            /\ last'.field \in DOMAIN validations[last'.inst]
            /\ validations[last'.inst][last'.field] = parseChain(ExprExtended)
            /\ last.name = X )
              => LET passes == Apply(PredicateOf(last.arg), last'.value, NullParams).val
                 IN  IF ~passes /\ ~HasFormatter("en", X)
                     THEN last'.err = "TypeError"
                     ELSE /\ last'.err = "none"
                          /\ last'.ret = Bool(passes)
                          /\ ~passes =>
                                 LET bag == errorBag'[last'.inst][last'.field]
                                 IN  bag[Len(bag)].msg.fmt = Messages["en"][X]
       /\ last'.op \in {"validate", "validateAll", "attach", "detach"} =>
              \A j \in Insts \ {last'.inst} :
                  /\ validations'[j] = validations[j]
                  /\ errorBag'[j] = errorBag[j]]_vars

\* validate on v2 recorded the failure of the registered rule x after that of
\* r, while v1, with another chain for the same field, keeps the two entries of
\* its own pass.
C16_Witness ==
    /\ ValidateReturned
    /\ last.inst = "v2"
    /\ X \in DOMAIN Rules
    /\ LastChain = parseChain(ExprExtended)
    /\ "a" \in DOMAIN validations["v1"]
    /\ validations["v1"]["a"] = parseChain(ExprSyncPair)
    /\ Len(errorBag["v1"]["a"]) = 2
    /\ Len(errorBag["v2"]["a"]) = 2
    /\ errorBag["v2"]["a"][2].msg.fmt = Messages["en"][X]

\* The number of occurrences of ch in s.
Count(s, ch) == Cardinality({k \in 1..Len(s) : s[k] = ch})

\* Each '|'-separated segment of the expression has at most one ':'.
AtMostOneColon(checks) ==
    \A k \in 1..Len(split(checks, "|")) : Count(split(checks, "|")[k], ":") <= 1

\* One RuleSpec per segment, in order, each split at the first ':' of its
\* segment.
FirstColonChain(checks) ==
    [k \in 1..Len(split(checks, "|")) |-> normalizeRuleFirstColon(split(checks, "|")[k])]

\* C17: for an expression whose segments have at most one ':' each, the chain
\* holds one RuleSpec per segment in order, named by the text before the ':'
\* (the whole segment when it has none), with params null without ':' and the
\* list of the raw ','-separated tokens after the ':' otherwise; and attach
\* gives a field the chain the constructor gives it for the same expression.
C17_ParseOfSingleColonSegments ==
    /\ last.op = "new" =>
           \A i \in Insts, k \in 1..Len(last.args) :
               AtMostOneColon(last.args[k][2])
                   => validations[i][last.args[k][1]] = FirstColonChain(last.args[k][2])
    /\ last.op = "attach" =>
           /\ AtMostOneColon(last.checks)
                  => validations[last.inst][last.field] = FirstColonChain(last.checks)
           /\ validations[last.inst][last.field]
                  = normalize(<<<<last.field, last.checks>>>>)[last.field]

\* attach parsed "a:x,y|b" to the rule a with params x and y followed by the
\* rule b without params, the chain the constructor left on the other instance.
C17_Witness ==
    /\ last.op = "attach"
    /\ last.checks = <<"a", ":", "x", ",", "y", "|", "b">>
    /\ validations[last.inst][last.field]
           = << [name |-> <<"a">>, params |-> ListParams(<< <<"x">>, <<"y">> >>)],
                [name |-> <<"b">>, params |-> NullParams] >>
    /\ validations["v2"]["a"] = validations[last.inst][last.field]

\* C18: for a segment with more than one ':', params is the comma-split list
\* of everything after the first ':' of the segment, the text after a second
\* ':' included.
C18_ParamsAreAllAfterFirstColon ==
    last.op = "attach" =>
        \A k \in 1..Len(split(last.checks, "|")) :
            Count(split(last.checks, "|")[k], ":") > 1
                => validations[last.inst][last.field][k].params
                       = normalizeRuleFirstColon(split(last.checks, "|")[k]).params

\* The catalog has an English formatter for the rule name.
HasEnglish(msgs, name) == "en" \in DOMAIN msgs /\ name \in DOMAIN msgs["en"]

\* The validator brings an English formatter: it is a function, or has
\* getMessage, or an English member in messages.
BringsEnglish(validator) ==
    \/ validator.fn
    \/ validator.getMessage # Undefined
    \/ validator.messages.defined /\ "en" \in DOMAIN validator.messages.map

\* C19: every rule name in the Rule Registry has an English formatter in the
\* Message Catalog, and a validate call whose rules are all registered never
\* ends in a runtime failure.
C19_EveryRuleHasEnglishFormatter ==
    /\ \A name \in DOMAIN Rules : HasEnglish(Messages, name)
    /\ last.op = "validate" /\ last.field \in DOMAIN validations[last.inst]
                            /\ FirstUnregistered(LastChain) = 0
           => last.err = "none"

\* C19 as amended: an English formatter is never lost; a name extend registers
\* has one exactly when it had one already or the validator brings one (a
\* function, getMessage, or an English member of messages); and a validate
\* call whose rules are all registered ends in a runtime failure exactly when
\* a failing synchronous rule has a formatter neither for the current locale
\* nor for English.
C19_EnglishFormatterUnlessMessagesOnly ==
    [][/\ \A name \in RuleNames : HasEnglish(Messages, name) => HasEnglish(Messages', name)
       /\ \A name \in DOMAIN Rules' \ DOMAIN Rules :
              /\ last'.op = "extend" /\ last'.name = name
              /\ HasEnglish(Messages', name)
                     <=> HasEnglish(Messages, name) \/ BringsEnglish(last'.arg)
       /\ ( /\ last'.op = "validate"
            /\ last'.field \in DOMAIN validations[last'.inst]
            /\ FirstUnregistered(validations[last'.inst][last'.field]) = 0 )
              => ( last'.err = "TypeError"
                     <=> \E k \in 1..Len(validations[last'.inst][last'.field]) :
                             LET rule == validations[last'.inst][last'.field][k]
                             IN  /\ IsSynchronous(rule, last'.value)
                                 /\ Fails(rule, last'.value)
                                 /\ ~HasFormatter(locale[last'.inst], rule.name)
                                 /\ ~HasEnglish(Messages, rule.name) )]_vars

\* validate ended in a runtime failure at the registered rule x, which failed
\* and has a French formatter only, after r recorded its entry.
C19_Witness ==
    /\ last.op = "validate"
    /\ last.err = "TypeError"
    /\ last.field \in DOMAIN validations[last.inst]
    /\ FirstUnregistered(LastChain) = 0
    /\ X \in DOMAIN Rules
    /\ ~HasEnglish(Messages, X)
    /\ HasFormatter("fr", X)
    /\ Len(errorBag[last.inst][last.field]) = 1

\* The position in values of the first key that has no chain on instance i; 0
\* when every key has one.
FirstWithoutChain(i, values) ==
    IF \A k \in 1..Len(values) : values[k][1] \in DOMAIN validations[i]
    THEN 0
    ELSE CHOOSE k \in 1..Len(values) :
             /\ values[k][1] \notin DOMAIN validations[i]
             /\ \A j \in 1..(k - 1) : values[j][1] \in DOMAIN validations[i]

\* C20: validate on a field that has no chain ends in a runtime failure; in
\* validateAll the failure comes after the whole Error Bag was emptied and the
\* keys before that field were validated, and the keys after it are not
\* validated: only the keys before it hold entries, those of their own pass.
C20_MissingChainFails ==
    /\ last.op = "validate" /\ last.field \notin DOMAIN validations[last.inst]
           => /\ last.err = "TypeError"
              /\ errorBag[last.inst][last.field] = <<>>
    /\ last.op = "validateAll" /\ FirstWithoutChain(last.inst, last.values) > 0
           => LET i  == last.inst
                  k0 == FirstWithoutChain(i, last.values)
              IN  /\ last.err = "TypeError"
                  /\ \A j \in 1..(k0 - 1) :
                         Shown(errorBag[i][last.values[j][1]])
                             = ExpectedSyncEntries(i, last.values[j][1], last.values[j][2])
                  /\ \A f \in Fields \ {last.values[j][1] : j \in 1..(k0 - 1)} :
                         errorBag[i][f] = <<>>

\* validateAll failed at its first key, which has no chain: the second key,
\* whose value fails its chain and which held entries before the call, was not
\* validated and holds none.
C20_Witness ==
    /\ last.op = "validateAll"
    /\ last.err = "TypeError"
    /\ Len(last.values) = 2
    /\ FirstWithoutChain(last.inst, last.values) = 1
    /\ last.values[2][1] \in DOMAIN validations[last.inst]
    /\ ExpectedSyncEntries(last.inst, last.values[2][1], last.values[2][2]) # <<>>
    /\ last.values[2][1] \in last.had
    /\ errorBag[last.inst][last.values[2][1]] = <<>>

====
